---- MODULE Spec2Model ----
(***************************************************************************)
(* A model of monitor.py, the Telegram <-> MQTT bridge.                    *)
(*                                                                         *)
(* The process has two threads: the daemon thread running run_mqtt (the    *)
(* broker client's loop, which dispatches on_connect and on_message) and   *)
(* the main thread running bot.infinity_polling (which dispatches          *)
(* handle_telegram_message).  Text values are TLA+ strings; a character is *)
(* a string of length one.                                                 *)
(***************************************************************************)
EXTENDS Integers, Sequences, FiniteSets, TLC

(***************************************************************************)
(* Text helpers: the Python string operations the program uses.            *)
(***************************************************************************)

\* s[i] of a Python string
Chr(s, i) == SubSeq(s, i, i)

\* The character standing for a byte (sequence) that is not valid UTF-8.
BadByte == "^"

\* The characters str.strip() removes (the ones that occur in the inputs).
Whitespace == {" ", "\n", "\t", "\r"}

RECURSIVE Decode(_)
\* bytes.decode(errors="ignore"): undecodable bytes are dropped
Decode(b) ==
    IF b = "" THEN ""
    ELSE IF Head(b) = BadByte THEN Decode(Tail(b))
    ELSE Head(b) \o Decode(Tail(b))

RECURSIVE LStrip(_)
LStrip(s) ==
    IF s # "" /\ Head(s) \in Whitespace THEN LStrip(Tail(s)) ELSE s

RECURSIVE RStrip(_)
RStrip(s) ==
    IF s # "" /\ Chr(s, Len(s)) \in Whitespace
    THEN RStrip(SubSeq(s, 1, Len(s) - 1))
    ELSE s

\* str.strip()
Strip(s) == RStrip(LStrip(s))

RECURSIVE SplitFrom(_, _, _)
\* the pieces of s after position `from`, `cur` being the piece in progress
SplitFrom(s, sep, cur) ==
    IF s = "" THEN <<cur>>
    ELSE IF Head(s) = sep THEN <<cur>> \o SplitFrom(Tail(s), sep, "")
    ELSE SplitFrom(Tail(s), sep, cur \o Head(s))

\* str.split(sep) for a one-character separator: empty pieces are kept
Split(s, sep) == SplitFrom(s, sep, "")

UpperCase == "ABCDEFGHIJKLMNOPQRSTUVWXYZ"
LowerCase == "abcdefghijklmnopqrstuvwxyz"

\* str.lower() of one character
LowerChr(c) ==
    IF \E i \in 1..Len(UpperCase) : Chr(UpperCase, i) = c
    THEN Chr(LowerCase, CHOOSE i \in 1..Len(UpperCase) : Chr(UpperCase, i) = c)
    ELSE c

RECURSIVE Lower(_)
\* str.lower()
Lower(s) == IF s = "" THEN "" ELSE LowerChr(Head(s)) \o Lower(Tail(s))

Digits == "0123456789"

RECURSIVE NatToStr(_)
NatToStr(n) ==
    IF n < 10 THEN Chr(Digits, n + 1)
    ELSE NatToStr(n \div 10) \o Chr(Digits, (n % 10) + 1)

\* str() of an int
IntToStr(n) == IF n < 0 THEN "-" \o NatToStr(0 - n) ELSE NatToStr(n)

\* a faulty variant of StartsWithAt: the pattern compiled without re.IGNORECASE
StartsWithAt_CaseSensitive(s, i, p) ==
    /\ i + Len(p) - 1 <= Len(s)
    /\ SubSeq(s, i, i + Len(p) - 1) = p

\* whether s[i..] starts with p, ignoring case (re.IGNORECASE)
StartsWithAt(s, i, p) ==
    /\ i + Len(p) - 1 <= Len(s)
    /\ Lower(SubSeq(s, i, i + Len(p) - 1)) = Lower(p)

\* IMAGE_URL_PATTERN, applied with .match() under re.IGNORECASE. Its parts, in
\* order:  ^  http  s?  ://  .*  \.  (jpg|jpeg|png|gif|webp)  ( \? .* )?  $
\* The match is a backtracking one anchored at the start; "." is any character
\* but a newline and "$" is the end of the string or the place before a final
\* newline.

\* the alternatives of group 1, in the order the pattern tries them
Extensions == <<"jpg", "jpeg", "png", "gif", "webp">>

\* no newline among s[i..j]: what ".*" can consume
NoNewline(s, i, j) == \A k \in i..j : Chr(s, k) # "\n"

\* "$" tested before s[i]
AtEnd(s, i) == i = Len(s) + 1 \/ (i = Len(s) /\ Chr(s, i) = "\n")

\* the optional query part and "$", tested before s[i]
QueryThenEnd(s, i) ==
    \/ AtEnd(s, i)
    \/ /\ i <= Len(s)
       /\ Chr(s, i) = "?"
       /\ \E j \in (i + 1)..(Len(s) + 1) : NoNewline(s, i + 1, j - 1) /\ AtEnd(s, j)

\* the "\." , group 1 and the rest of the pattern tested before s[d]: the
\* number of the first alternative with which the rest matches, 0 when none does
ExtensionAt(s, d) ==
    IF d <= Len(s) /\ Chr(s, d) = "."
    THEN LET ok == {n \in 1..Len(Extensions) :
                      /\ StartsWithAt(s, d + 1, Extensions[n])
                      /\ QueryThenEnd(s, d + 1 + Len(Extensions[n]))}
         IN IF ok = {} THEN 0 ELSE CHOOSE n \in ok : \A m \in ok : n <= m
    ELSE 0

\* "^https?://": the length of the matched prefix, 0 when there is none
SchemeEnd(s) ==
    IF StartsWithAt(s, 1, "https://") THEN 8
    ELSE IF StartsWithAt(s, 1, "http://") THEN 7
    ELSE 0

\* the places of the "\." at which the match can be completed
DotPlaces(s) ==
    LET p == SchemeEnd(s)
    IN IF p = 0 THEN {}
       ELSE {d \in (p + 1)..Len(s) : NoNewline(s, p + 1, d - 1) /\ ExtensionAt(s, d) # 0}

\* IMAGE_URL_PATTERN.match(s): ".*" is greedy, so the match found is the one
\* with the last possible "\."; group1 is the text captured by group 1
IMAGE_URL_PATTERN(s) ==
    LET D == DotPlaces(s)
    IN IF D = {} THEN [matched |-> FALSE, group1 |-> ""]
       ELSE LET d == CHOOSE a \in D : \A b \in D : b <= a
                e == Extensions[ExtensionAt(s, d)]
            IN [matched |-> TRUE, group1 |-> SubSeq(s, d + 1, d + Len(e))]

(***************************************************************************)
(* The broker client (paho-mqtt) and the broker, as far as the program     *)
(* depends on them.                                                        *)
(***************************************************************************)

MQTT_ERR_SUCCESS == 0
MQTT_ERR_NO_CONN == 4
MQTT_ERR_CONN_LOST == 7

\* the connect result codes a CONNACK can carry: accepted, or not authorised
ConnackCodes == {0, 5}

\* whether t occurs in s
Contains(s, t) == \E i \in 1..(Len(s) - Len(t) + 1) : SubSeq(s, i, i + Len(t) - 1) = t

\* client.subscribe(topic) raises ValueError for an empty filter and for one
\* whose wildcards are misplaced
SubscribeRaises(topic) ==
    LET levels == Split(topic, "/")
    IN \/ topic = ""
       \/ \E n \in 1..Len(levels) :
             Len(levels[n]) > 1 /\ (Contains(levels[n], "+") \/ Contains(levels[n], "#"))
       \/ Contains(topic, "#/")

RECURSIVE LevelsMatch(_, _)
\* whether a filter (its levels) matches a topic (its levels) at the broker
LevelsMatch(f, t) ==
    IF f = <<>> THEN t = <<>>
    ELSE IF Head(f) = "#" THEN TRUE
    ELSE IF t = <<>> THEN FALSE
    ELSE (Head(f) = "+" \/ Head(f) = Head(t)) /\ LevelsMatch(Tail(f), Tail(t))

TopicMatches(filter, topic) == LevelsMatch(Split(filter, "/"), Split(topic, "/"))

(***************************************************************************)
(* Configuration and inputs.                                               *)
(***************************************************************************)

\* values of the environment variable TELEGRAM_CHAT_ID
EnvChatId == {"12", "-7"}

\* values of the environment variable MQTT_TOPICS_OUTPUT: the default, a list
\* written with blanks around its items, and a list with an empty item
EnvTopicsOutput == {"telegram/output/#,mt32/#", "t/#, m/+ ", "t/#,,m/#"}

MQTT_TOPIC_INPUT == "telegram/input"

\* topics of the messages the broker has to deliver
BrokerTopics == {"mt32/status", "telegram/output/cam1", "t/a", "m/b"}

\* payloads (bytes) of the messages the broker has to deliver
BrokerPayloads ==
    {"hello", " hello \n", "h^i", "", "on_off *x",
     "https://x.example/a.png", " http://x/a.jpg\n", "http://x/a.GIF",
     "HTTP://x/b.Jpeg?q=1", "http://x/a.gif?s=.png", "http://.webp",
     "http://x/a.png#f", "ftp://x/a.png", "http://x/a\n.png"}

\* message.chat.id of the chat messages that arrive
ChatIds == {12, -7, 120}

\* message.text of the chat messages that arrive
ChatTexts == {"on", " Off\n"}

\* the number of broker messages that SpecNumbered numbers and follows
MaxBrokerMessages == 3

NoMessage == [topic |-> "", payload |-> ""]
NoLocals == [payload |-> "", matched |-> FALSE, ext |-> ""]
NoChat == [chat_id |-> 0, text |-> ""]

\* a call made to a collaborator: the operation, its target (a chat identity or
\* a topic), its text argument (text, caption, payload or URL), the attachment's
\* file name, whether it returned normally, and the result code it returned
Call(op, to, arg, name, ok, rc) ==
    [op |-> op, to |-> to, arg |-> arg, name |-> name, ok |-> ok, rc |-> rc]

VARIABLES
    CHAT_ID,             \* os.getenv('TELEGRAM_CHAT_ID')
    MQTT_TOPICS_OUTPUT,  \* the list os.getenv('MQTT_TOPICS_OUTPUT', ...).split(',')
    brokerUp,            \* whether the broker is reachable
    mainPc,              \* main thread: "start", "polling", "exited"
    mqttPc,              \* run_mqtt's thread: "init", "connect", "loop", "ended"
    conn,                \* the client's connection: "closed", "connack_wait", "connected"
    connFailed,          \* whether a connection-level failure has happened
    connectRc,           \* rc of the last connect event, -1 before the first
    subCalls,            \* the subscribe calls of the last connect event
    subscriptions,       \* the filters subscribed in the current session
    omPc,                \* on_message: "idle", "get", "send_photo", "send_animation", "send_message"
    omMsg,               \* the broker message being handled, or handled last
    omLocals,            \* on_message's payload and ext
    omCalls,             \* the calls made for omMsg
    tgPc,                \* handle_telegram_message: "idle", "reply"
    tgMsg,               \* the chat message being handled, or handled last
    tgCalls,             \* the calls made for tgMsg
    arrived,             \* history: the number of broker messages on_message was called for
    sentLog              \* history: the numbers of the messages whose chat send succeeded, in the order of the sends

config == <<CHAT_ID, MQTT_TOPICS_OUTPUT>>
mqttVars == <<mqttPc, conn, connFailed, connectRc, subCalls, subscriptions>>
omVars == <<omPc, omMsg, omLocals, omCalls>>
tgVars == <<tgPc, tgMsg, tgCalls>>
\* the history variables: no part of the program, they record what it did, and
\* only SpecNumbered keeps them
history == <<arrived, sentLog>>

vars == <<config, brokerUp, mainPc, mqttVars, omVars, tgVars, history>>

Init ==
    /\ CHAT_ID \in EnvChatId
    /\ MQTT_TOPICS_OUTPUT \in {Split(e, ",") : e \in EnvTopicsOutput}
    /\ brokerUp \in BOOLEAN
    /\ mainPc = "start"
    /\ mqttPc = "init"
    /\ conn = "closed"
    /\ connFailed = FALSE
    /\ connectRc = -1
    /\ subCalls = <<>>
    /\ subscriptions = {}
    /\ omPc = "idle"
    /\ omMsg = NoMessage
    /\ omLocals = NoLocals
    /\ omCalls = <<>>
    /\ tgPc = "idle"
    /\ tgMsg = NoChat
    /\ tgCalls = <<>>
    /\ arrived = 0
    /\ sentLog = <<>>

\* a faulty variant of Running: run_mqtt's thread is not a daemon, and goes on
\* after the main thread has ended
Running_ThreadNotDaemon == TRUE

\* the process runs until its main thread ends: run_mqtt's thread is a daemon
Running == mainPc # "exited"

\* a faulty variant of Polling: the end of run_mqtt takes the chat loop down
Polling_EndsWithBrokerLoop == mainPc = "polling" /\ mqttPc # "ended"

\* a faulty variant of Polling: chat messages are handled on the thread of the
\* broker loop, between two calls of on_message
Polling_WaitsForOnMessage == mainPc = "polling" /\ omPc = "idle"

\* bot.infinity_polling() is running in the main thread: it receives the chat
\* messages and calls the handler, whatever run_mqtt's thread is doing
Polling == mainPc = "polling"

(***************************************************************************)
(* The environment.                                                        *)
(***************************************************************************)

BrokerGoesDown ==
    /\ Running
    /\ brokerUp
    /\ brokerUp' = FALSE
    /\ UNCHANGED <<history, config, mainPc, mqttVars, omVars, tgVars>>

BrokerComesUp ==
    /\ Running
    /\ ~brokerUp
    /\ brokerUp' = TRUE
    /\ UNCHANGED <<history, config, mainPc, mqttVars, omVars, tgVars>>

(***************************************************************************)
(* __main__                                                                *)
(***************************************************************************)

\* mqtt_thread.start(), then bot.infinity_polling() is entered
StartThreads ==
    /\ mainPc = "start"
    /\ mainPc' = "polling"
    /\ mqttPc' = "connect"
    /\ UNCHANGED <<history, config, brokerUp, conn, connFailed, connectRc, subCalls,
                   subscriptions, omVars, tgVars>>

\* bot.infinity_polling() returns or raises: the main thread ends, and with it
\* the process
PollingEnds ==
    /\ mainPc = "polling"
    /\ tgPc = "idle"
    /\ mainPc' = "exited"
    /\ UNCHANGED <<history, config, brokerUp, mqttVars, omVars, tgVars>>

(***************************************************************************)
(* run_mqtt and the client's loop                                          *)
(***************************************************************************)

\* an exception that leaves mqtt_client.connect or loop_forever: run_mqtt logs
\* it and returns, which ends the thread
MqttLoopError == mqttPc' = "ended"

\* mqtt_client.connect(MQTT_BROKER, MQTT_PORT, 60)
run_mqtt ==
    /\ Running
    /\ mqttPc = "connect"
    /\ IF brokerUp
       THEN /\ mqttPc' = "loop"
            /\ conn' = "connack_wait"
            /\ UNCHANGED connFailed
       ELSE /\ MqttLoopError
            /\ connFailed' = TRUE
            /\ UNCHANGED conn
    /\ UNCHANGED <<history, config, brokerUp, mainPc, connectRc, subCalls, subscriptions,
                   omVars, tgVars>>

RECURSIVE SubscribeEach(_)
\* the loop of on_connect over MQTT_TOPICS_OUTPUT: the calls it makes, the last
\* of which may have raised
SubscribeEach(topics) ==
    IF topics = <<>> THEN <<>>
    ELSE LET topic == Strip(Head(topics))
         IN IF SubscribeRaises(topic)
            THEN <<[topic |-> topic, raised |-> TRUE]>>
            ELSE <<[topic |-> topic, raised |-> FALSE]>> \o SubscribeEach(Tail(topics))

\* SubscribeEach of every list the configuration can hold, computed once
SubscribeCallsOf == [topics \in {Split(e, ",") : e \in EnvTopicsOutput} |-> SubscribeEach(topics)]

\* a faulty variant of OnConnectCalls: rc is not looked at
OnConnectCalls_WhateverRc(rc) == SubscribeCallsOf[MQTT_TOPICS_OUTPUT]

\* the calls on_connect(rc) makes
OnConnectCalls(rc) == IF rc = 0 THEN SubscribeCallsOf[MQTT_TOPICS_OUTPUT] ELSE <<>>

Raised(calls) == \E n \in 1..Len(calls) : calls[n].raised

\* the CONNACK arrives and the loop calls on_connect(rc); an exception on_connect
\* raises leaves loop_forever; a refused connection is closed and retried
on_connect ==
    /\ Running
    /\ mqttPc = "loop"
    /\ conn = "connack_wait"
    /\ brokerUp
    /\ \E rc \in ConnackCodes :
          LET calls == OnConnectCalls(rc)
          IN /\ connectRc' = rc
             /\ subCalls' = calls
             /\ subscriptions' = subscriptions \cup
                   {calls[n].topic : n \in {m \in 1..Len(calls) : ~calls[m].raised}}
             /\ conn' = IF rc = 0 THEN "connected" ELSE "closed"
             /\ IF Raised(calls) THEN MqttLoopError ELSE UNCHANGED mqttPc
    /\ UNCHANGED <<history, config, brokerUp, mainPc, connFailed, omVars, tgVars>>

\* the loop finds the connection lost
ConnectionLost ==
    /\ Running
    /\ mqttPc = "loop"
    /\ conn \in {"connack_wait", "connected"}
    /\ omPc = "idle"
    /\ ~brokerUp
    /\ conn' = "closed"
    /\ connFailed' = TRUE
    /\ subscriptions' = {}
    /\ UNCHANGED <<history, config, brokerUp, mainPc, mqttPc, connectRc, subCalls, omVars, tgVars>>

\* loop_forever's reconnect(): an OSError is caught and the loop tries again
Reconnect ==
    /\ Running
    /\ mqttPc = "loop"
    /\ conn = "closed"
    /\ conn' = IF brokerUp THEN "connack_wait" ELSE "closed"
    /\ UNCHANGED <<history, config, brokerUp, mainPc, mqttPc, connFailed, connectRc, subCalls,
                   subscriptions, omVars, tgVars>>

(***************************************************************************)
(* on_message, called by the loop for each message the broker delivers.    *)
(* Its blocking calls (the HTTP GET, the chat send) are steps of their     *)
(* own, so that the other thread can run meanwhile.                        *)
(***************************************************************************)

\* caption = f"Topic: {msg.topic}"
Caption(topic) == "Topic: " \o topic

\* a faulty variant of MessageText: the topic line left out
MessageText_BodyOnly(topic, payload) == payload

\* message_text = f"Topic: {msg.topic}\nMessage: {payload}"
MessageText(topic, payload) == "Topic: " \o topic \o "\nMessage: " \o payload

\* a faulty variant of SnapshotName: one fixed name for every attachment
SnapshotName_AlwaysJpg(ext) == "snapshot.jpg"

\* photo_buffer.name = f"snapshot.{ext}"
SnapshotName(ext) == "snapshot." \o ext

\* a faulty variant of MediaSend: every attachment is sent as a photo
MediaSend_PhotoOnly(ext) == "send_photo"

\* if ext == 'gif': bot.send_animation(...) else: bot.send_photo(...)
MediaSend(ext) == IF ext = "gif" THEN "send_animation" ELSE "send_photo"

\* a faulty variant of Locals: the match of the message before is kept when
\* the payload does not match
Locals_KeepsLastMatch(bytes) ==
    LET payload == Strip(Decode(bytes))
        match == IMAGE_URL_PATTERN(payload)
    IN [payload |-> payload,
        matched |-> match.matched \/ omLocals.matched,
        ext |-> IF match.matched THEN Lower(match.group1) ELSE omLocals.ext]

\* payload = msg.payload.decode(errors="ignore").strip(), the match and
\* ext = match.group(1).lower()
Locals(bytes) ==
    LET payload == Strip(Decode(bytes))
        match == IMAGE_URL_PATTERN(payload)
    IN [payload |-> payload,
        matched |-> match.matched,
        ext |-> IF match.matched THEN Lower(match.group1) ELSE ""]

\* Locals of every payload that is delivered, computed once
LocalsOf == [bytes \in BrokerPayloads |-> Locals(bytes)]

\* the filters the configuration can hold, as on_connect subscribes to them
Filters ==
    UNION {{Strip(Split(e, ",")[n]) : n \in 1..Len(Split(e, ","))} : e \in EnvTopicsOutput}

\* TopicMatches of every filter and topic, computed once
Delivers == [filter \in Filters, topic \in BrokerTopics |-> TopicMatches(filter, topic)]

\* a faulty variant of CallbackReturned: the callback is started for a message
\* without waiting for the call before it to return
CallbackReturned_NotAwaited == TRUE

\* loop_forever calls on_message for one message at a time, on its own thread:
\* the call for the next message waits for the call before it to return
CallbackReturned == omPc = "idle"

\* the decoding, the match and the branch on it, up to the first blocking call
OnMessageBegins ==
    /\ Running
    /\ mqttPc = "loop"
    /\ conn = "connected"
    /\ CallbackReturned
    /\ \E topic \in BrokerTopics, bytes \in BrokerPayloads :
          /\ \E filter \in subscriptions : Delivers[filter, topic]
          /\ omMsg' = [topic |-> topic, payload |-> bytes]
          /\ omLocals' = LocalsOf[bytes]
          /\ omPc' = IF LocalsOf[bytes].matched THEN "get" ELSE "send_message"
          /\ omCalls' = <<>>
    /\ UNCHANGED <<config, brokerUp, mainPc, mqttVars, tgVars>>

\* on_message is called for a broker message
on_message == OnMessageBegins /\ UNCHANGED history

\* on_message is called for a broker message, which is numbered
on_message_numbered ==
    /\ arrived < MaxBrokerMessages
    /\ OnMessageBegins
    /\ arrived' = arrived + 1
    /\ UNCHANGED sentLog

\* a faulty variant of ExceptionCaught: no except clause, so that the exception
\* leaves on_message and then loop_forever
ExceptionEscapes ==
    /\ omPc' = "idle"
    /\ MqttLoopError

\* except Exception: logger.exception(...): on_message returns normally
ExceptionCaught ==
    /\ omPc' = "idle"
    /\ UNCHANGED mqttPc

\* on_message returns after its send
OnMessageReturns ==
    /\ omPc' = "idle"
    /\ UNCHANGED mqttPc

\* a faulty variant of AfterGet: a failed GET falls back to sending the URL as
\* a text message
AfterGet_FallsBackToText(ok) ==
    /\ omPc' = IF ok THEN MediaSend(omLocals.ext) ELSE "send_message"
    /\ UNCHANGED mqttPc

\* where on_message goes after the GET: on to the send chosen by ext, or, the
\* GET having raised, to the except clause
AfterGet(ok) ==
    IF ok
    THEN /\ omPc' = MediaSend(omLocals.ext)
         /\ UNCHANGED mqttPc
    ELSE ExceptionCaught

\* requests.get(payload, timeout=15, stream=True), raise_for_status() and the
\* read of response.content: any of them may raise
OnMessageGet ==
    /\ Running
    /\ omPc = "get"
    /\ \E ok \in BOOLEAN :
          /\ omCalls' = Append(omCalls, Call("get", "", omLocals.payload, "", ok, 0))
          /\ AfterGet(ok)
    /\ UNCHANGED <<history, config, brokerUp, mainPc, conn, connFailed, connectRc, subCalls,
                   subscriptions, omMsg, omLocals, tgVars>>

\* the call of bot.send_animation, bot.send_photo or bot.send_message that
\* on_message has reached
OnMessageSendCall(ok) ==
    IF omPc = "send_message"
    THEN Call("send_message", CHAT_ID, MessageText(omMsg.topic, omLocals.payload), "", ok, 0)
    ELSE Call(omPc, CHAT_ID, Caption(omMsg.topic), SnapshotName(omLocals.ext), ok, 0)

\* the chat send, which may raise; on_message returns either way
OnMessageSends ==
    /\ Running
    /\ omPc \in {"send_animation", "send_photo", "send_message"}
    /\ \E ok \in BOOLEAN :
          /\ omCalls' = Append(omCalls, OnMessageSendCall(ok))
          /\ IF ok THEN OnMessageReturns ELSE ExceptionCaught
    /\ UNCHANGED <<config, brokerUp, mainPc, conn, connFailed, connectRc, subCalls,
                   subscriptions, omMsg, omLocals, tgVars>>

\* the chat send of on_message
OnMessageSend == OnMessageSends /\ UNCHANGED history

\* the chat send of on_message, logged under the number of its message when it
\* succeeded
OnMessageSendLogged ==
    /\ OnMessageSends
    /\ sentLog' = IF omCalls'[Len(omCalls')].ok THEN Append(sentLog, arrived) ELSE sentLog
    /\ UNCHANGED arrived

(***************************************************************************)
(* handle_telegram_message, called by infinity_polling for each chat       *)
(* message.  Chat identities are recorded in their str() form, the form in *)
(* which the handler compares them.                                        *)
(***************************************************************************)

\* str(message.chat.id) of every chat identity, computed once
StrOf == [id \in ChatIds |-> IntToStr(id)]

\* a faulty variant of Authorized: the identity check left out
Authorized_Anyone(message) == TRUE

\* not (str(message.chat.id) != str(CHAT_ID))
Authorized(message) == StrOf[message.chat_id] = CHAT_ID

\* the result codes mqtt_client.publish can return: no connection when the
\* client has no socket, otherwise success, or a lost connection when the
\* write to the socket fails
PublishCodes ==
    IF conn = "closed" THEN {MQTT_ERR_NO_CONN}
    ELSE IF brokerUp THEN {MQTT_ERR_SUCCESS}
    ELSE {MQTT_ERR_SUCCESS, MQTT_ERR_CONN_LOST}

\* the grave accent of the reply's Markdown, which a TLA+ string cannot hold:
\* the apostrophe stands for it
Grave == "'"

\* a faulty variant of ReplyText: the result code is not looked at
ReplyText_IgnoringRc(rc) == "Sent to " \o Grave \o MQTT_TOPIC_INPUT \o Grave

\* the text of the reply for a publish result code
ReplyText(rc) ==
    IF rc = MQTT_ERR_SUCCESS
    THEN "Sent to " \o Grave \o MQTT_TOPIC_INPUT \o Grave
    ELSE "ERROR - Publishing to MQTT failed"

\* a faulty variant of PublishCalls: the publish is made before the identity
\* check, and only the reply depends on the check
PublishCalls_Unchecked(message, rc) ==
    <<Call("publish", MQTT_TOPIC_INPUT, message.text, "", TRUE, rc)>>

\* the calls the handler makes before its reply
PublishCalls(message, rc) ==
    IF Authorized(message)
    THEN <<Call("publish", MQTT_TOPIC_INPUT, message.text, "", TRUE, rc)>>
    ELSE <<>>

\* the identity check and the publish
handle_telegram_message ==
    /\ Polling
    /\ tgPc = "idle"
    /\ \E id \in ChatIds, text \in ChatTexts, rc \in PublishCodes :
          LET message == [chat_id |-> id, text |-> text]
              calls == PublishCalls(message, rc)
          IN /\ tgMsg' = message
             /\ tgCalls' = calls
             /\ tgPc' = IF calls = <<>> THEN "idle" ELSE "reply"
    /\ UNCHANGED <<history, config, brokerUp, mainPc, mqttVars, omVars>>

\* a faulty variant of ReplyCall: the reply is chosen by the state of the
\* connection, not by the result code of the publish
ReplyCall_ByConnection(rc, ok) ==
    Call("reply_to", StrOf[tgMsg.chat_id],
         ReplyText(IF conn = "connected" THEN MQTT_ERR_SUCCESS ELSE MQTT_ERR_NO_CONN), "", ok, 0)

\* the call of bot.reply_to the handler makes after a publish that returned rc
ReplyCall(rc, ok) == Call("reply_to", StrOf[tgMsg.chat_id], ReplyText(rc), "", ok, 0)

\* bot.reply_to(message, ...), which may raise; the handler ends either way
TelegramReply ==
    /\ Polling
    /\ tgPc = "reply"
    /\ \E ok \in BOOLEAN :
          tgCalls' = Append(tgCalls, ReplyCall(tgCalls[Len(tgCalls)].rc, ok))
    /\ tgPc' = "idle"
    /\ UNCHANGED <<history, config, brokerUp, mainPc, mqttVars, omVars, tgMsg>>

Next ==
    \/ BrokerGoesDown
    \/ BrokerComesUp
    \/ StartThreads
    \/ PollingEnds
    \/ run_mqtt
    \/ on_connect
    \/ ConnectionLost
    \/ Reconnect
    \/ on_message
    \/ OnMessageGet
    \/ OnMessageSend
    \/ handle_telegram_message
    \/ TelegramReply

Spec == Init /\ [][Next]_vars

\* Next with the history kept: the broker messages are numbered as on_message is
\* called for them, and the chat sends that succeed are logged
NextNumbered ==
    \/ BrokerGoesDown
    \/ BrokerComesUp
    \/ StartThreads
    \/ PollingEnds
    \/ run_mqtt
    \/ on_connect
    \/ ConnectionLost
    \/ Reconnect
    \/ on_message_numbered
    \/ OnMessageGet
    \/ OnMessageSendLogged
    \/ handle_telegram_message
    \/ TelegramReply

\* the configuration has no part in the order of the messages: one is taken
InitNumbered ==
    /\ Init
    /\ CHAT_ID = "12"
    /\ MQTT_TOPICS_OUTPUT = Split("telegram/output/#,mt32/#", ",")

SpecNumbered == InitNumbered /\ [][NextNumbered]_vars

(***************************************************************************)
(* Properties.                                                             *)
(***************************************************************************)

\* a chat message has been received, and tgMsg is it
ChatMessageSeen == tgMsg.chat_id \in ChatIds

\* the sender of tgMsg is the configured destination identity
FromDestination == ChatMessageSeen /\ StrOf[tgMsg.chat_id] = CHAT_ID

\* the calls of tgCalls whose operation is op
TgCallsOf(op) == SelectSeq(tgCalls, LAMBDA c : c.op = op)

\* the calls of omCalls whose operation is among ops
OmCallsOf(ops) == SelectSeq(omCalls, LAMBDA c : c.op \in ops)

ChatSends == {"send_message", "send_photo", "send_animation"}

\* C1: a chat message whose sender is not the configured destination identity
\* leads to no publish and no reply (no call at all), and the handler is over
\* at once, whatever the state of the broker connection.
C1_UnauthorizedIsSilent ==
    (ChatMessageSeen /\ ~FromDestination) => (tgCalls = <<>> /\ tgPc = "idle")

\* C1 witness: such a message has been handled while the broker connection
\* was up and on_message was in the middle of a message
C1_Witness ==
    /\ ChatMessageSeen
    /\ ~FromDestination
    /\ tgCalls = <<>>
    /\ conn = "connected"
    /\ omPc = "send_message"

\* C2: a chat message from the destination identity leads to exactly one
\* publish, to the input topic and with the text as it came, and then to exactly
\* one reply: the one naming the input topic if the publish returned success,
\* the generic failure notice otherwise; this whatever the state of the broker
\* connection and whether or not the reply raised.
C2_AuthorizedPublishAndReply ==
    FromDestination =>
        /\ Len(TgCallsOf("publish")) = 1
        /\ tgCalls[1].op = "publish"
        /\ tgCalls[1].to = "telegram/input"
        /\ tgCalls[1].arg = tgMsg.text
        /\ tgPc = "reply" => Len(tgCalls) = 1
        /\ tgPc = "idle" =>
              /\ Len(tgCalls) = 2
              /\ tgCalls[2].op = "reply_to"
              /\ tgCalls[2].arg =
                    IF tgCalls[1].rc = 0
                    THEN "Sent to " \o Grave \o "telegram/input" \o Grave
                    ELSE "ERROR - Publishing to MQTT failed"

\* C2 witness: the text " Off\n" was published as it came after the broker
\* loop had ended, the publish failed, and the reply raised
C2_Witness ==
    /\ FromDestination
    /\ tgPc = "idle"
    /\ mqttPc = "ended"
    /\ Len(tgCalls) = 2
    /\ tgCalls[1].arg = " Off\n"
    /\ tgCalls[1].rc # 0
    /\ tgCalls[2].arg = "ERROR - Publishing to MQTT failed"
    /\ ~tgCalls[2].ok

\* the configured filters, in order, each with the blanks around it removed
ConfiguredFilters ==
    [topics \in {Split(e, ",") : e \in EnvTopicsOutput} |->
        [n \in 1..Len(topics) |-> Strip(topics[n])]]

\* C3: after every connect event with rc = 0, on_connect has issued exactly
\* one subscribe per configured filter, in the configured order, each for the
\* configured filter, and the subscriptions of the session are the configured
\* filters exactly.
C3_ConnectSubscribesConfiguredSet ==
    connectRc = 0 =>
        LET filters == ConfiguredFilters[MQTT_TOPICS_OUTPUT]
        IN /\ Len(subCalls) = Len(filters)
           /\ \A n \in 1..Len(subCalls) : subCalls[n].topic = filters[n]
           /\ conn = "connected" =>
                 subscriptions = {filters[n] : n \in 1..Len(filters)}

\* C9: once a connection-level failure has happened (the first connect attempt
\* failed, or an established connection was lost), the broker loop has not
\* ended: it goes on retrying.
C9_LoopSurvivesConnectionFailure == connFailed => mqttPc # "ended"

\* C10: when the subscribe call for one configured filter has raised, the
\* subscribe calls for all the other configured filters have been issued all
\* the same.
C10_SubscriptionsIndependent ==
    (connectRc = 0 /\ Raised(subCalls)) =>
        LET filters == ConfiguredFilters[MQTT_TOPICS_OUTPUT]
        IN \A k \in 1..Len(filters) :
              \E n \in 1..Len(subCalls) : subCalls[n].topic = filters[k]

\* a broker message has been delivered, and omMsg is it
BrokerMessageSeen == omMsg.topic \in BrokerTopics

\* the payload of each broker message decoded and trimmed
Trimmed == [bytes \in BrokerPayloads |-> Strip(Decode(bytes))]

\* omMsg's payload is treated as a media URL
IsMedia == BrokerMessageSeen /\ LocalsOf[omMsg.payload].matched

\* C4: a broker message whose payload is not a media URL leads to no fetch and
\* to exactly one chat send, a text send of "Topic: {topic}\nMessage: {payload}"
\* with the payload decoded and trimmed; no image or animation send is made.
C4_TextMessageSentOnce ==
    (BrokerMessageSeen /\ ~IsMedia) =>
        /\ omPc \in {"idle", "send_message"}
        /\ omPc = "send_message" => omCalls = <<>>
        /\ omPc = "idle" =>
              /\ Len(omCalls) = 1
              /\ omCalls[1].op = "send_message"
              /\ omCalls[1].arg =
                    "Topic: " \o omMsg.topic \o "\nMessage: " \o Trimmed[omMsg.payload]

\* C4 witness: the payload " hello \n" on topic mt32/status has been sent as
\* "Topic: mt32/status\nMessage: hello"
C4_Witness ==
    /\ omPc = "idle"
    /\ omMsg = [topic |-> "mt32/status", payload |-> " hello \n"]
    /\ Len(omCalls) = 1
    /\ omCalls[1].arg = "Topic: mt32/status\nMessage: hello"
    /\ omCalls[1].ok

\* C5: a broker message whose payload is a media URL leads to exactly one
\* fetch, of that URL, and, when the fetch succeeded, to exactly one media send
\* after it, with caption "Topic: {topic}": an animation send if and only if the
\* extension, lower-cased, is gif, an image send otherwise; no text send is made.
C5_MediaFetchedThenSent ==
    IsMedia =>
        /\ omPc # "send_message"
        /\ omPc = "get" => omCalls = <<>>
        /\ omPc # "get" =>
              /\ Len(omCalls) >= 1
              /\ omCalls[1].op = "get"
              /\ omCalls[1].arg = Trimmed[omMsg.payload]
        /\ omPc \in {"send_photo", "send_animation"} => (Len(omCalls) = 1 /\ omCalls[1].ok)
        /\ (omPc = "idle" /\ omCalls[1].ok) =>
              /\ Len(omCalls) = 2
              /\ omCalls[2].op =
                    IF LocalsOf[omMsg.payload].ext = "gif" THEN "send_animation" ELSE "send_photo"
              /\ omCalls[2].arg = "Topic: " \o omMsg.topic
        /\ (omPc = "idle" /\ ~omCalls[1].ok) => Len(omCalls) = 1

\* C5 witness: http://x/a.GIF on topic telegram/output/cam1 has been fetched and
\* sent as an animation
C5_Witness ==
    /\ omPc = "idle"
    /\ omMsg = [topic |-> "telegram/output/cam1", payload |-> "http://x/a.GIF"]
    /\ Len(omCalls) = 2
    /\ omCalls[1].arg = "http://x/a.GIF"
    /\ omCalls[2].op = "send_animation"
    /\ omCalls[2].arg = "Topic: telegram/output/cam1"

\* the fetch of omMsg was made and failed
FetchFailed == omCalls # <<>> /\ omCalls[1].op = "get" /\ ~omCalls[1].ok

\* C6: when the fetch for a media URL fails, no chat send is made for that
\* message and the fetch is not made again; the step in which it fails ends
\* on_message and changes nothing the handling of the next message depends on
\* (the loop, the connection, the subscriptions, the configuration).
C6_FetchFailureDropsMessage ==
    /\ [](FetchFailed => (Len(omCalls) = 1 /\ omPc = "idle"))
    /\ [][(omPc = "get" /\ omCalls' # <<>> /\ ~omCalls'[1].ok) =>
            (omPc' = "idle" /\ UNCHANGED <<config, mainPc, mqttVars, omMsg, tgVars>>)]_vars

\* C6 witness: a fetch has failed, and the loop is up and connected, ready for
\* the next message
C6_Witness ==
    /\ FetchFailed
    /\ omPc = "idle"
    /\ mqttPc = "loop"
    /\ conn = "connected"
    /\ mainPc = "polling"

\* C7: no error of on_message reaches the loop: whatever the payload and
\* whatever the outcome of the fetch and of the send, the loop is still running
\* and connected after every step of on_message, a message leads to at most one
\* fetch and at most one chat send, and a failed call is not made again.
C7_OnMessageErrorsContained ==
    /\ [](omPc # "idle" => (mqttPc = "loop" /\ conn = "connected"))
    /\ [](Len(OmCallsOf({"get"})) <= 1 /\ Len(OmCallsOf(ChatSends)) <= 1)
    /\ []((omCalls # <<>> /\ ~omCalls[Len(omCalls)].ok) => omPc = "idle")
    /\ [][omPc # "idle" => (mqttPc' = "loop" /\ conn' = "connected")]_vars

\* C7 witness: a payload with an undecodable byte was handled, its send raised,
\* and the loop is still up and connected
C7_Witness ==
    /\ omPc = "idle"
    /\ omMsg.payload = "h^i"
    /\ Len(omCalls) = 1
    /\ omCalls[1].arg = "Topic: " \o omMsg.topic \o "\nMessage: hi"
    /\ ~omCalls[1].ok
    /\ mqttPc = "loop"
    /\ conn = "connected"

\* C8: every chat send (text, image, animation, reply) targets the configured
\* destination identity.
C8_SendsTargetDestination ==
    /\ \A n \in 1..Len(omCalls) : omCalls[n].op \in ChatSends => omCalls[n].to = CHAT_ID
    /\ \A n \in 1..Len(tgCalls) : tgCalls[n].op = "reply_to" => tgCalls[n].to = CHAT_ID

\* C8 witness: a reply and a send of on_message have both been made
C8_Witness ==
    /\ Len(TgCallsOf("reply_to")) = 1
    /\ Len(OmCallsOf(ChatSends)) = 1
    /\ tgCalls[2].to = CHAT_ID

\* run_mqtt has ended with an error while the chat loop is running
BrokerLoopFailed == mqttPc = "ended" /\ mainPc = "polling"

\* the broker loop is connected and subscribed to a filter under which a broker
\* message can arrive
BrokerLoopReceiving ==
    /\ mqttPc = "loop"
    /\ conn = "connected"
    /\ \E filter \in subscriptions, topic \in BrokerTopics : Delivers[filter, topic]

\* a step of on_message: its start on a new message, its fetch or its send
OnMessageStep == on_message \/ OnMessageGet \/ OnMessageSend

\* C11 as stated: neither loop's failure ends the other.  After run_mqtt has
\* ended with an error the chat loop can still receive a chat message and
\* finish the handling of one; after infinity_polling has ended, a broker loop
\* that was connected and subscribed can still receive a broker message and
\* finish the handling of one.
C11_NeitherFailureEndsTheOther ==
    /\ (BrokerLoopFailed /\ tgPc = "idle") => ENABLED handle_telegram_message
    /\ (BrokerLoopFailed /\ tgPc = "reply") => ENABLED TelegramReply
    /\ (mainPc = "exited" /\ BrokerLoopReceiving /\ omPc = "idle") => ENABLED on_message
    /\ (mainPc = "exited" /\ omPc # "idle") => ENABLED (OnMessageGet \/ OnMessageSend)

\* C11 as the code has it: after run_mqtt has ended with an error the chat loop
\* can still receive a chat message and finish the handling of one; after
\* infinity_polling has ended the process is over, and the broker loop takes no
\* further step of on_message, even connected, subscribed and in the middle of
\* a message.
C11_BrokerFailureLeavesChatLoop ==
    /\ (BrokerLoopFailed /\ tgPc = "idle") => ENABLED handle_telegram_message
    /\ (BrokerLoopFailed /\ tgPc = "reply") => ENABLED TelegramReply
    /\ mainPc = "exited" => ~ENABLED OnMessageStep

\* C11 witness: the first connect failed, run_mqtt ended, and the handler has
\* published a chat message and is about to reply
C11_Witness ==
    /\ BrokerLoopFailed
    /\ connFailed
    /\ FromDestination
    /\ tgPc = "reply"
    /\ tgCalls[1].rc = MQTT_ERR_NO_CONN

\* on_message is inside its fetch or its chat send
OnMessageStalled == omPc # "idle"

\* the chat handler is inside its reply, after its publish
HandlerStalled == tgPc = "reply"

\* C12: while on_message is inside its fetch or its send, the chat loop can
\* take a chat message from the destination identity and publish it, and a
\* handler that has published can make its reply, neither waiting for
\* on_message to return; and while the chat handler is inside its reply, the
\* broker loop can start on a broker message and go on with the one it is in.
C12_LoopsDoNotWaitForEachOther ==
    /\ (OnMessageStalled /\ mainPc = "polling" /\ tgPc = "idle") =>
          ENABLED (handle_telegram_message /\ tgPc' = "reply")
    /\ (OnMessageStalled /\ mainPc = "polling" /\ HandlerStalled) => ENABLED TelegramReply
    /\ (HandlerStalled /\ OnMessageStalled) => ENABLED (OnMessageGet \/ OnMessageSend)
    /\ (HandlerStalled /\ BrokerLoopReceiving /\ omPc = "idle") => ENABLED on_message

\* C12 witness: on_message is inside the fetch of a media URL, nothing of it
\* done yet, and the chat handler has published with success and is inside its
\* reply
C12_Witness ==
    /\ omPc = "get"
    /\ omCalls = <<>>
    /\ HandlerStalled
    /\ FromDestination
    /\ tgCalls[1].rc = MQTT_ERR_SUCCESS

(***************************************************************************)
(* The reference classifier of the payloads, written from the shape of a   *)
(* media URL and not from a matching procedure: a scheme, a middle part of *)
(* at least `least` characters without a newline, a dot, an extension and, *)
(* optionally, a question mark and a query without a newline; the case of  *)
(* the letters is ignored.                                                 *)
(***************************************************************************)

RefSchemes == {"http://", "https://"}

RefExtensions == {"jpg", "jpeg", "png", "gif", "webp"}

\* s[i..j] lower-cased, or "" when the range leaves s
RefPart(s, i, j) == IF i >= 1 /\ j <= Len(s) THEN Lower(SubSeq(s, i, j)) ELSE ""

\* the ways of reading s as a media URL: the scheme, the place of the final dot
\* and the extension
RefShapes(s, least) ==
    {shape \in RefSchemes \X (1..Len(s)) \X RefExtensions :
        LET scheme == shape[1]
            dot == shape[2]
            ext == shape[3]
            after == dot + Len(ext) + 1
        IN /\ RefPart(s, 1, Len(scheme)) = scheme
           /\ dot >= Len(scheme) + 1 + least
           /\ Chr(s, dot) = "."
           /\ \A k \in (Len(scheme) + 1)..(dot - 1) : Chr(s, k) # "\n"
           /\ RefPart(s, dot + 1, dot + Len(ext)) = ext
           /\ \/ after = Len(s) + 1
              \/ /\ after <= Len(s)
                 /\ Chr(s, after) = "?"
                 /\ \A k \in (after + 1)..Len(s) : Chr(s, k) # "\n"}

\* the classification of the trimmed payload s: text, or media of kind
\* animation when the extension after the last dot that fits is gif, of kind
\* image otherwise
RefClassify(s, least) ==
    LET shapes == RefShapes(s, least)
    IN IF shapes = {} THEN [kind |-> "text", text |-> s]
       ELSE LET last == CHOOSE a \in shapes : \A b \in shapes : b[2] <= a[2]
            IN [kind |-> IF last[3] = "gif" THEN "animation" ELSE "image", text |-> s]

\* the reference classifier of the spec, with at least one character between
\* the scheme and the final dot, for every payload that is delivered
ClassifierOfSpec == [bytes \in BrokerPayloads |-> RefClassify(Trimmed[bytes], 1)]

\* the same with any number of characters, none included, between the scheme
\* and the final dot
ClassifierAnyMiddle == [bytes \in BrokerPayloads |-> RefClassify(Trimmed[bytes], 0)]

\* where on_message is with omMsg, or the last call it made for it
Route == IF omPc # "idle" THEN omPc ELSE omCalls[Len(omCalls)].op

\* on_message treats omMsg as the classification c says
TreatedAs(c) ==
    /\ omLocals.payload = c.text
    /\ Route = "send_message" <=> c.kind = "text"
    /\ Route = "send_animation" => c.kind = "animation"
    /\ Route = "send_photo" => c.kind = "image"
    /\ omPc = "get" => (MediaSend(omLocals.ext) = "send_animation" <=> c.kind = "animation")
    /\ (Route = "send_message" /\ omCalls # <<>>) =>
          omCalls[1].arg = "Topic: " \o omMsg.topic \o "\nMessage: " \o c.text

\* C13 as stated: on_message treats every broker message as the reference
\* classifier of the spec classifies its payload: as media exactly when the
\* trimmed payload has the shape of a media URL with at least one character
\* between the scheme and the final dot-extension, animation if and only if the
\* extension is gif, and as text equal to the trimmed payload otherwise.
C13_AgreesWithSpecClassifier ==
    BrokerMessageSeen => TreatedAs(ClassifierOfSpec[omMsg.payload])

\* C13 as the code has it: the same with no character needed between the
\* scheme and the final dot-extension.
C13_AgreesWithClassifierAnyMiddle ==
    BrokerMessageSeen => TreatedAs(ClassifierAnyMiddle[omMsg.payload])

\* C13 witness: "http://.webp", which has nothing between the scheme and the
\* dot, has been fetched and sent as an image, and "HTTP://x/b.Jpeg?q=1" and
\* "http://x/a.png#f" are payloads too, the one media, the other text
C13_Witness ==
    /\ omMsg.payload = "http://.webp"
    /\ omPc = "idle"
    /\ Len(omCalls) = 2
    /\ omCalls[1].op = "get"
    /\ omCalls[2].op = "send_photo"
    /\ ClassifierOfSpec["http://.webp"].kind = "text"
    /\ ClassifierAnyMiddle["HTTP://x/b.Jpeg?q=1"].kind = "image"
    /\ ClassifierAnyMiddle["http://x/a.png#f"].kind = "text"

\* the numbers of the log grow strictly
InArrivalOrder(log) == \A i, j \in 1..Len(log) : i < j => log[i] < log[j]

\* C14: on_message is called for a broker message only when its call for the
\* message before has returned (after its send, or after the failure of its
\* fetch or send), every chat send is made inside the call for the message that
\* caused it, and so the chat sends that succeed come in the order in which
\* their messages arrived.
C14_SerialInArrivalOrder ==
    /\ [](InArrivalOrder(sentLog))
    /\ [](\A i \in 1..Len(sentLog) :
            IF omPc = "idle" THEN sentLog[i] <= arrived ELSE sentLog[i] < arrived)
    /\ [][arrived' # arrived =>
            (omPc = "idle" /\ arrived' = arrived + 1 /\ omCalls' = <<>>)]_vars
    /\ [][omCalls' # omCalls => (omPc # "idle" \/ arrived' # arrived)]_vars
    /\ [][sentLog' # sentLog =>
            /\ omPc \in ChatSends
            /\ omPc' = "idle"
            /\ omCalls'[Len(omCalls')].ok
            /\ sentLog' = Append(sentLog, arrived)
            /\ UNCHANGED <<arrived, omMsg>>]_vars

\* C14 witness: three broker messages have been handled; the sends of the first
\* and of the third succeeded, in that order, and the second led to no send or
\* to one that failed
C14_Witness ==
    /\ arrived = MaxBrokerMessages
    /\ omPc = "idle"
    /\ sentLog = <<1, MaxBrokerMessages>>

\* C15: when infinity_polling has returned or raised, the whole process is over:
\* no step of any part of it is left, even with the broker loop connected and
\* in the middle of a message; and the step in which run_mqtt ends leaves the
\* main thread where it was, the chat loop going on to receive chat messages
\* until infinity_polling itself ends.
C15_ProcessEndsWithChatLoop ==
    /\ [](mainPc = "exited" => ~ENABLED Next)
    /\ [][(mqttPc # "ended" /\ mqttPc' = "ended") => mainPc' = mainPc]_vars
    /\ []((mqttPc = "ended" /\ mainPc = "polling") =>
            ENABLED (handle_telegram_message \/ TelegramReply))

\* C15 witness: infinity_polling has ended while the broker loop was connected
\* and on_message inside a fetch
C15_Witness ==
    /\ mainPc = "exited"
    /\ mqttPc = "loop"
    /\ conn = "connected"
    /\ brokerUp
    /\ omPc = "get"

\* the kind of each payload, a function of the payload and of nothing else
KindOfPayload == [bytes \in BrokerPayloads |-> ClassifierAnyMiddle[bytes].kind]

\* the kind on_message has given omMsg, as its locals and its route show it
KindGiven ==
    IF Route = "send_message" \/ ~omLocals.matched THEN "text"
    ELSE IF Route = "send_animation" \/ (Route = "get" /\ omLocals.ext = "gif")
         THEN "animation"
         ELSE "image"

\* on_message is called for a message with the payload of the message before
SamePayloadAgain ==
    /\ BrokerMessageSeen
    /\ omPc = "idle"
    /\ omPc' # "idle"
    /\ omMsg'.payload = omMsg.payload

\* C16: the kind on_message gives a broker message is a function of its payload
\* alone: in every state, whatever the topic, the messages before and the state
\* of the broker connection and of the chat handler, it is the kind of that
\* payload; and a message with the payload of the message before gets the same
\* locals and the same first call, whatever the two topics and whatever happened
\* in between.
C16_RouteDependsOnPayloadOnly ==
    /\ [](BrokerMessageSeen => KindGiven = KindOfPayload[omMsg.payload])
    /\ [][SamePayloadAgain => (omLocals' = omLocals /\ omPc' = omCalls[1].op)]_vars

\* C16 witness: the payload "http://x/a.gif?s=.png", whose last extension is
\* png, is on its way as an image under topic mt32/status, with the broker gone
\* and the chat handler inside a reply
C16_Witness ==
    /\ omMsg = [topic |-> "mt32/status", payload |-> "http://x/a.gif?s=.png"]
    /\ omPc = "send_photo"
    /\ ~brokerUp
    /\ tgPc = "reply"

\* a connect event: the CONNACK has arrived and on_connect is called; the event
\* reports failure when the connection is closed again with the broker there
ConnectEvent == conn = "connack_wait" /\ brokerUp /\ conn' # conn

ConnectFailureEvent == ConnectEvent /\ conn' = "closed"

\* C17: a connect event that reports failure (rc # 0) issues no subscribe call
\* and leaves the subscriptions as they were; subscribe calls are issued, and
\* subscriptions added, in connect events with rc = 0 only.
C17_FailedConnectSubscribesNothing ==
    /\ [][ConnectFailureEvent =>
            (connectRc' # 0 /\ subCalls' = <<>> /\ subscriptions' = subscriptions)]_vars
    /\ [][(ConnectEvent /\ connectRc' # 0) => ConnectFailureEvent]_vars
    /\ [](subCalls # <<>> => connectRc = 0)
    /\ [][((subCalls' # subCalls /\ subCalls' # <<>>) \/ ~(subscriptions' \subseteq subscriptions))
            => (ConnectEvent /\ connectRc' = 0)]_vars

\* C17 witness: the broker has refused a connection with rc = 5 after a session
\* with subscriptions was lost; no subscribe call was made, and the loop is
\* about to try again
C17_Witness ==
    /\ connectRc = 5
    /\ connFailed
    /\ subCalls = <<>>
    /\ subscriptions = {}
    /\ mqttPc = "loop"
    /\ conn = "closed"

\* the two replies of the handler
SuccessReply == "Sent to " \o Grave \o "telegram/input" \o Grave

FailureReply == "ERROR - Publishing to MQTT failed"

\* C18: the handler replies only after its publish has returned: the step that
\* makes the reply finds the publish, with its result code, as the one call
\* made so far; and the reply is the success reply if and only if that result
\* code is success, the failure reply otherwise, whatever the state of the
\* connection, the text published and the outcome of the reply itself.
C18_ReplyFollowsPublishResult ==
    /\ [][tgCalls' # tgCalls /\ tgCalls' # <<>> /\ tgCalls'[Len(tgCalls')].op = "reply_to" =>
            /\ tgPc = "reply"
            /\ Len(tgCalls) = 1
            /\ tgCalls[1].op = "publish"
            /\ tgCalls' = Append(tgCalls, tgCalls'[Len(tgCalls')])
            /\ UNCHANGED tgMsg]_vars
    /\ [](\A n \in 1..Len(tgCalls) :
            tgCalls[n].op = "reply_to" =>
                /\ n > 1
                /\ tgCalls[n - 1].op = "publish"
                /\ tgCalls[n].arg \in {SuccessReply, FailureReply}
                /\ tgCalls[n].arg = SuccessReply <=> tgCalls[n - 1].rc = MQTT_ERR_SUCCESS)

\* C18 witness: with the connection up, the publish returned the code of a lost
\* connection, and the failure reply was sent
C18_Witness ==
    /\ conn = "connected"
    /\ Len(tgCalls) = 2
    /\ tgCalls[1].rc = MQTT_ERR_CONN_LOST
    /\ tgCalls[2].op = "reply_to"
    /\ tgCalls[2].arg = FailureReply
    /\ tgCalls[2].ok

\* the extension of a media URL, lower-cased: the one after the last dot that
\* fits the shape; "" for a payload that is no media URL
RefExtension(s) ==
    LET shapes == RefShapes(s, 0)
    IN IF shapes = {} THEN ""
       ELSE (CHOOSE a \in shapes : \A b \in shapes : b[2] <= a[2])[3]

ExtensionOfPayload == [bytes \in BrokerPayloads |-> RefExtension(Trimmed[bytes])]

\* C19: every image or animation send carries the attachment name "snapshot."
\* followed by the extension of the URL, lower-cased, and the name is
\* snapshot.gif if and only if the send is the animation send.
C19_SnapshotNameAgreesWithSend ==
    \A n \in 1..Len(omCalls) :
        omCalls[n].op \in {"send_photo", "send_animation"} =>
            /\ omCalls[n].name = "snapshot." \o ExtensionOfPayload[omMsg.payload]
            /\ omCalls[n].name = "snapshot.gif" <=> omCalls[n].op = "send_animation"

\* C19 witness: "HTTP://x/b.Jpeg?q=1" has been sent as an image named
\* snapshot.jpeg
C19_Witness ==
    /\ omMsg.payload = "HTTP://x/b.Jpeg?q=1"
    /\ Len(omCalls) = 2
    /\ omCalls[2].op = "send_photo"
    /\ omCalls[2].name = "snapshot.jpeg"
    /\ omCalls[2].ok

====
